---- MODULE Spec2Model ----
(***************************************************************************)
(* Model of packages/nextjs/src/config/wrappers/utils/responseEnd.ts:      *)
(* autoEndTransactionOnResponseEnd wraps res.end, finishTransaction sets   *)
(* the HTTP status and defers transaction.finish with setImmediate, and    *)
(* flushQueue awaits flush(2000) inside a try/catch.                       *)
(*                                                                         *)
(* The JavaScript run-time is modelled as Node's event loop: one callback  *)
(* runs at a time; the microtask queue (promise reactions, nextTick)       *)
(* drains after every callback; the loop walks the phases                  *)
(* timers -> poll -> check, and setImmediate callbacks run in the check    *)
(* phase, in the order they were queued.                                   *)
(***************************************************************************)
EXTENDS Integers, Sequences, FiniteSets, TLC

\* ---------------------------------------------------------------- bounds
\* Operations user code performs in total under Spec (calls of
\* autoEndTransactionOnResponseEnd, calls of res.end, callbacks queued).
MaxOps == 3
\* The same under SpecWrap.
MaxWrapOps == 3
\* The same under SpecFlush (flushQueue calls included).
MaxFlushOps == 4
\* ... in SpecLive (the fair event loop).
MaxLiveOps == 3
\* ... in SpecTimeout (flush outlasting its timeout).
MaxTimeoutOps == 3
\* ... in SpecThrows (transactions whose methods throw).
MaxThrowOps == 3
\* ... in SpecTwo (two requests in flight).
MaxTwoOps == 4
\* Runs of the dev setup script, and entries of compilerOptions in the
\* tsconfig text it starts from.
MaxRuns == 2
MaxEntries == 3

\* ------------------------------------------------------------ input sets
Res == {"r1", "r2"}
Txns == {"t1", "t2"}
NoTxn == "undefined"
Codes == {200, 404}
ArgLists == {<<>>, <<"body">>}
\* How child spans tied to the response's end complete: not at all,
\* synchronously inside the original end, or in a callback of the same tick.
SpanModes == {"none", "sync", "tick"}
\* How user code queues a callback: promise/nextTick, setImmediate, setTimeout.
Vias == {"tick", "immediate", "timer"}
\* Which method of a transaction throws, if any.
ThrowModes == {"ok", "setHttpStatus", "finish"}
\* What flush(timeout) does: throws synchronously, or returns a promise.
FlushModes == {"throws", "promise"}

FlushTimeout == 2000

VARIABLES
    endFn,        \* res.end of each response: the stack of wrappers around the native end
    statusCode,   \* res.statusCode
    throwsIn,     \* behaviour of each transaction's methods
    wrapCount,    \* history: calls of autoEndTransactionOnResponseEnd per response
    firstWrap,    \* history: the transaction of the first such call per response
    lastWrap,     \* history: the transaction of the latest such call per response
    phase,        \* event loop phase: "timers", "poll", "check"
    cur,          \* "idle" between callbacks, "user" while user code runs
    curCalls,     \* invocations of res.end made by the callback that is running
    microQ,       \* microtask queue
    immQ,         \* setImmediate callbacks queued for the next check phase
    immRun,       \* setImmediate callbacks of the check phase being run
    timerQ,       \* setTimeout callbacks
    log,          \* history: the observable calls, in order
    calls,        \* history: one record per invocation of res.end
    ft,           \* one record per finishTransaction call: its promise
    fq,           \* one record per flushQueue call: its promise
    callbacks,    \* history: how each user callback was queued
    ops,          \* operations user code has performed
    script        \* the dev setup script use-ts-3_8.js and the tsconfig it edits

vars == <<endFn, statusCode, throwsIn, wrapCount, firstWrap, lastWrap, phase, cur,
          curCalls, microQ, immQ, immRun, timerQ, log, calls, ft, fq, callbacks, ops,
          script>>

\* ------------------------------------------------------------- helpers
Task(kind, id) == [kind |-> kind, id |-> id]

Ev(op, inv, who, arg) == [op |-> op, inv |-> inv, who |-> who, arg |-> arg]

Indices(s) == 1..Len(s)

\* The part of the state a chain of calls threads through.
Machine ==
    [log |-> log, microQ |-> microQ, immQ |-> immQ, ft |-> ft, fq |-> fq,
     cur |-> cur, ret |-> <<>>, exc |-> FALSE]

\* ------------------------------------------------ transaction (external)
\* Calling a method on undefined throws a TypeError.
Throws(t, method) == t = NoTxn \/ throwsIn[t] = method

setHttpStatus(t, code, inv, m) ==
    IF t = NoTxn THEN m
    ELSE [m EXCEPT !.log = Append(@, Ev("setHttpStatus", inv, t, code))]

finish(t, inv, m) ==
    IF t = NoTxn THEN m
    ELSE [m EXCEPT !.log = Append(@, Ev("finish", inv, t, 0))]

\* ------------------------------------------------------ finishTransaction
\* Variant: the `if (transaction)` guard is missing.
HasTransactionUnchecked(t) == TRUE

HasTransaction(t) == t # NoTxn

\* Variant: a fixed status instead of the one read from the response.
StatusArgDefault(recv) == 200

\* Variant: the status code is read from one fixed response.
StatusArgShared(recv) == statusCode["r1"]

StatusArg(recv) == statusCode[recv]

\* Variant: resolve() is called whether or not transaction.finish() threw.
finishCallbackAlwaysResolves(k, m) ==
    LET t == m.ft[k].txn
        m1 == finish(t, m.ft[k].inv, m)
    IN  [m1 EXCEPT !.ft[k].state = "resuming",
                   !.microQ = Append(@, Task("resume", k))]

\* The callback handed to setImmediate: transaction.finish(); resolve().
\* resolve() queues the continuation of the awaiting async function.
\* When finish() throws, resolve() is never reached.
finishCallback(k, m) ==
    LET t == m.ft[k].txn
        m1 == finish(t, m.ft[k].inv, m)
    IN  IF Throws(t, "finish")
        THEN [m1 EXCEPT !.log = Append(@, Ev("uncaught", m.ft[k].inv, t, 0))]
        ELSE [m1 EXCEPT !.ft[k].state = "resuming",
                        !.microQ = Append(@, Task("resume", k))]

\* Variant: the callback is run at once instead of being deferred.
setImmediateInline(k, m) == finishCallback(k, m)

\* Variant: the callback is deferred with process.nextTick.
setImmediateAsNextTick(k, m) == [m EXCEPT !.microQ = Append(@, Task("finish", k))]

\* Variant: one queued callback serves every finishTransaction call waiting.
setImmediateCoalesced(k, m) ==
    IF \E n \in Indices(m.immQ) : m.immQ[n].kind = "finish"
    THEN m
    ELSE [m EXCEPT !.immQ = Append(@, Task("finish", k))]

setImmediate(k, m) == [m EXCEPT !.immQ = Append(@, Task("finish", k))]

\* Variant: the exception leaves finishTransaction as in a plain function.
syncThrow(m) == [m EXCEPT !.exc = TRUE]

\* An exception thrown inside an async function rejects the promise the
\* function returned; nothing is thrown at its caller.
asyncThrow(m) == m

\* Variant: the promise of the setImmediate callback is not awaited.
finishTransactionNoAwait(t, recv, inv, m) ==
    LET k == Len(m.ft) + 1
        rec(state) == [inv |-> inv, txn |-> t, state |-> state]
    IN  IF HasTransaction(t)
        THEN LET m1 == setHttpStatus(t, StatusArg(recv), inv, m)
             IN  IF Throws(t, "setHttpStatus")
                 THEN asyncThrow([m1 EXCEPT !.ft = Append(@, rec("rejected"))])
                 ELSE setImmediate(k, [m1 EXCEPT !.ft = Append(@, rec("resolved"))])
        ELSE [m EXCEPT !.ft = Append(@, rec("resolved"))]

finishTransaction(t, recv, inv, m) ==
    LET k == Len(m.ft) + 1
        rec(state) == [inv |-> inv, txn |-> t, state |-> state]
    IN  IF HasTransaction(t)
        THEN LET m1 == setHttpStatus(t, StatusArg(recv), inv, m)
             IN  IF Throws(t, "setHttpStatus")
                 THEN asyncThrow([m1 EXCEPT !.ft = Append(@, rec("rejected"))])
                 ELSE setImmediate(k, [m1 EXCEPT !.ft = Append(@, rec("pending"))])
        ELSE [m EXCEPT !.ft = Append(@, rec("resolved"))]

\* -------------------------------------------------------------- res.end
\* The native end: records the call, completes the child spans that finish
\* with the response, and returns a value determined by receiver and arguments.
OrigEndResult(recv, args) == <<recv, Len(args)>>

origEnd(recv, args, inv, spans, m) ==
    LET m1 == [m EXCEPT !.log = Append(@, Ev("origEnd", inv, recv, args)),
                        !.ret = OrigEndResult(recv, args)]
    IN  CASE spans = "sync" -> [m1 EXCEPT !.log = Append(@, Ev("spanFinish", inv, recv, 0))]
          [] spans = "tick" -> [m1 EXCEPT !.microQ = Append(@, Task("span", inv))]
          [] OTHER -> m1

\* Variant: the wrapper calls origEnd without the arguments.
CallArgsDropped(args) == <<>>

CallArgs(args) == args

\* Calling res.end: each wrapper is sentryWrappedEnd, which starts
\* finishTransaction and then calls the function it wraps.
RECURSIVE sentryWrappedEnd(_, _, _, _, _, _)
sentryWrappedEnd(fn, recv, args, inv, spans, m) ==
    IF fn = <<>>
    THEN origEnd(recv, args, inv, spans, m)
    ELSE LET m1 == finishTransaction(Head(fn).txn, recv, inv, m)
         IN  IF m1.exc
             THEN m1
             ELSE sentryWrappedEnd(Tail(fn), recv, CallArgs(args), inv, spans, m1)

\* ------------------------------------------ autoEndTransactionOnResponseEnd
\* Variant: the double-wrapping guard is missing.
AlreadyWrappedUnchecked(r) == FALSE

AlreadyWrapped(r) == endFn[r] # <<>> /\ Head(endFn[r]).sentry_original

\* fill(res, 'end', wrapEndMethod): the replacement wraps the current method
\* and carries the marker.
fill(fn, t) == <<[txn |-> t, sentry_original |-> TRUE]>> \o fn

\* Variant: a call on a wrapped response restores the method it wraps.
autoEndTransactionOnResponseEndToggle(t, r) ==
    IF AlreadyWrapped(r)
    THEN [endFn EXCEPT ![r] = Tail(@)]
    ELSE [endFn EXCEPT ![r] = fill(@, t)]

\* Variant: a call on a wrapped response replaces the wrapper by a new one.
autoEndTransactionOnResponseEndLastWins(t, r) ==
    [endFn EXCEPT ![r] = fill(IF AlreadyWrapped(r) THEN Tail(@) ELSE @, t)]

autoEndTransactionOnResponseEnd(t, r) ==
    IF AlreadyWrapped(r) THEN endFn ELSE [endFn EXCEPT ![r] = fill(@, t)]

\* ------------------------------------------------------------ flushQueue
\* Variant: no try/catch around the await.
flushQueueSettleUncaught(outcome) ==
    IF outcome = "fulfilled" THEN "resolved" ELSE "rejected"

\* What the try/catch makes of the outcome of `await flush(2000)`.
flushQueueSettle(outcome) ==
    CASE outcome = "fulfilled" -> "resolved"
      [] outcome = "threw" -> "resolved"
      [] outcome = "rejected" -> "resolved"

\* Variant: flush(2000) is called without `await`.
flushQueueNoAwait(mode, m) ==
    LET k == Len(m.fq) + 1
        m1 == [m EXCEPT !.log = Append(@, Ev("flush", k, "user", FlushTimeout))]
    IN  IF mode = "throws"
        THEN [m1 EXCEPT !.fq = Append(@, [outcome |-> "threw", late |-> FALSE,
                                          state |-> flushQueueSettle("threw")])]
        ELSE [m1 EXCEPT !.fq = Append(@, [outcome |-> "pending", late |-> FALSE,
                                          state |-> "resolved"])]

\* `late` records that the timeout handed to flush has elapsed while the
\* promise flush returned was still unsettled; flushQueue sets no timer.
flushQueue(mode, m) ==
    LET k == Len(m.fq) + 1
        m1 == [m EXCEPT !.log = Append(@, Ev("flush", k, "user", FlushTimeout))]
    IN  IF mode = "throws"
        THEN [m1 EXCEPT !.fq = Append(@, [outcome |-> "threw", late |-> FALSE,
                                          state |-> flushQueueSettle("threw")])]
        ELSE [m1 EXCEPT !.fq = Append(@, [outcome |-> "pending", late |-> FALSE,
                                          state |-> "pending"])]

\* ------------------------------------------------------ running a callback
Execute(task, m) ==
    CASE task.kind = "env" ->
           [m EXCEPT !.log = Append(@, Ev("cb", task.id, "user", 0)), !.cur = "user"]
      [] task.kind = "span" ->
           [m EXCEPT !.log = Append(@, Ev("spanFinish", task.id, "tick", 0))]
      [] task.kind = "finish" ->
           finishCallback(task.id, m)
      [] task.kind = "resume" ->
           \* finishTransaction continues after `await transactionFinished`
           [m EXCEPT !.ft[task.id].state = "resolved"]
      [] task.kind = "flushResume" ->
           \* flushQueue continues after `await flush(2000)`
           [m EXCEPT !.fq[task.id].state = flushQueueSettle(m.fq[task.id].outcome)]

\* ----------------------------------------------------------------- Init
\* ------------------------------------------------- use-ts-3_8.js (script)
\* The text of packages/typescript/tsconfig.json: how it is laid out and the
\* entries of "compilerOptions" as written, a key possibly more than once.
OptionKeys == {"strict", "noImplicitAny", "noUncheckedIndexedAccess"}
Entries == OptionKeys \X BOOLEAN
Layouts == [indent : {"two", "tab"}, newline : BOOLEAN]

Text(layout, hasOptions, options) ==
    [indent |-> layout.indent, newline |-> layout.newline,
     hasOptions |-> hasOptions, options |-> options]

Texts ==
    {Text(l, TRUE, o) : l \in Layouts,
                        o \in UNION {[1..n -> Entries] : n \in 0..MaxEntries}}
        \cup {Text(l, FALSE, <<>>) : l \in Layouts}

BaseConfig ==
    Text([indent |-> "two", newline |-> TRUE], TRUE,
         <<(<<"strict", TRUE>>), (<<"noUncheckedIndexedAccess", TRUE>>)>>)

\* JSON.parse of an object: a key written twice keeps the place of its first
\* occurrence and the value of its last.
RECURSIVE ParseEntries(_)
ParseEntries(entries) ==
    IF entries = <<>>
    THEN <<>>
    ELSE LET init == ParseEntries(SubSeq(entries, 1, Len(entries) - 1))
             last == entries[Len(entries)]
         IN  IF \E n \in Indices(init) : init[n][1] = last[1]
             THEN [n \in Indices(init) |->
                      IF init[n][1] = last[1] THEN last ELSE init[n]]
             ELSE Append(init, last)

\* require(baseTscConfigPath): the parsed object, without the layout.
require(text) ==
    [hasOptions |-> text.hasOptions, options |-> ParseEntries(text.options)]

\* Variant: the whole of compilerOptions is emptied.
deleteAllOptions(tsConfig, key) == [tsConfig EXCEPT !.options = <<>>]

\* delete tsConfig.compilerOptions[key]
deleteOption(tsConfig, key) ==
    [tsConfig EXCEPT !.options = SelectSeq(@, LAMBDA e : e[1] # key)]

\* JSON.stringify(tsConfig, null, 2): two-space layout, no final newline.
JSONstringify(tsConfig) ==
    Text([indent |-> "two", newline |-> FALSE], tsConfig.hasOptions, tsConfig.options)

\* The script before its first run on a tsconfig with the given text.
ScriptStart(text) ==
    [pc |-> "start", file |-> text, before |-> text, orig |-> text, runs |-> 1,
     edits |-> 0]

\* ------------------------------------------------------------------ Init
Healthy == [t \in Txns |-> "ok"]

InitFrom(behaviours, texts) ==
    /\ endFn = [r \in Res |-> <<>>]
    /\ statusCode = [r \in Res |-> 200]
    /\ throwsIn \in behaviours
    /\ wrapCount = [r \in Res |-> 0]
    /\ firstWrap = [r \in Res |-> "never"]
    /\ lastWrap = [r \in Res |-> "never"]
    /\ phase = "poll"
    /\ cur = "idle"
    /\ curCalls = {}
    /\ microQ = <<>>
    /\ immQ = <<>>
    /\ immRun = <<>>
    /\ timerQ = <<>>
    /\ log = <<>>
    /\ calls = <<>>
    /\ ft = <<>>
    /\ fq = <<>>
    /\ callbacks = <<>>
    /\ ops = 0
    /\ script \in {ScriptStart(text) : text \in texts}

Init == InitFrom({Healthy}, {BaseConfig})

\* The transaction t1 is healthy, or one of its two methods throws.
InitThrows ==
    InitFrom({[Healthy EXCEPT !["t1"] = mode] : mode \in ThrowModes}, {BaseConfig})

\* The script is run on any tsconfig text.
InitScript == InitFrom({Healthy}, Texts)

\* ------------------------------------------------------ user code actions
\* An I/O callback (a request handler) starts in the poll phase.
BeginHandler ==
    /\ cur = "idle" /\ microQ = <<>> /\ phase = "poll"
    /\ cur' = "user"
    /\ UNCHANGED <<endFn, statusCode, throwsIn, wrapCount, firstWrap, lastWrap, phase,
                   curCalls, microQ, immQ, immRun, timerQ, log, calls, ft, fq,
                   callbacks, ops, script>>

\* The running user callback returns to the event loop.
EndTurn ==
    /\ cur = "user"
    /\ cur' = "idle"
    /\ curCalls' = {}
    /\ UNCHANGED <<endFn, statusCode, throwsIn, wrapCount, firstWrap, lastWrap, phase,
                   microQ, immQ, immRun, timerQ, log, calls, ft, fq, callbacks, ops,
                   script>>

\* User code calls autoEndTransactionOnResponseEnd(t, r).
Wrap(max, T, R) ==
    /\ cur = "user" /\ ops < max
    /\ \E t \in T, r \in R :
        /\ endFn' = autoEndTransactionOnResponseEnd(t, r)
        /\ wrapCount' = [wrapCount EXCEPT ![r] = @ + 1]
        /\ firstWrap' = [firstWrap EXCEPT ![r] = IF @ = "never" THEN t ELSE @]
        /\ lastWrap' = [lastWrap EXCEPT ![r] = t]
    /\ ops' = ops + 1
    /\ UNCHANGED <<statusCode, throwsIn, phase, cur, curCalls, microQ, immQ, immRun,
                   timerQ, log, calls, ft, fq, callbacks, script>>

\* User code assigns res.statusCode.
SetStatusCode(R) ==
    /\ cur = "user"
    /\ \E r \in R, c \in Codes :
        /\ statusCode[r] # c
        /\ statusCode' = [statusCode EXCEPT ![r] = c]
    /\ UNCHANGED <<endFn, throwsIn, wrapCount, firstWrap, lastWrap, phase, cur,
                   curCalls, microQ, immQ, immRun, timerQ, log, calls, ft, fq,
                   callbacks, ops, script>>

PendingTasks == microQ \o immRun \o immQ \o timerQ

QueuedCallbacks ==
    {PendingTasks[i].id : i \in {j \in Indices(PendingTasks) : PendingTasks[j].kind = "env"}}

\* User code queues a callback of its own.
QueueCallback(max) ==
    /\ cur = "user" /\ ops < max
    /\ \E via \in Vias :
        LET task == Task("env", Len(callbacks) + 1)
        IN  /\ callbacks' = Append(callbacks, via)
            /\ microQ' = IF via = "tick" THEN Append(microQ, task) ELSE microQ
            /\ immQ' = IF via = "immediate" THEN Append(immQ, task) ELSE immQ
            /\ timerQ' = IF via = "timer" THEN Append(timerQ, task) ELSE timerQ
    /\ ops' = ops + 1
    /\ UNCHANGED <<endFn, statusCode, throwsIn, wrapCount, firstWrap, lastWrap, phase,
                   cur, curCalls, immRun, log, calls, ft, fq, script>>

\* User code calls r.end.call(recv, ...args); detached calls pass another receiver.
InvokeEnd(max, R, Recvs, A, S) ==
    /\ cur = "user" /\ ops < max
    /\ \E r \in R, recv \in Recvs, args \in A, spans \in S :
        LET inv == Len(calls) + 1
            m == sentryWrappedEnd(endFn[r], recv, args, inv, spans, Machine)
        IN  /\ log' = Append(m.log, Ev(IF m.exc THEN "throw" ELSE "return",
                                        inv, recv, m.ret))
            /\ microQ' = m.microQ
            /\ immQ' = m.immQ
            /\ ft' = m.ft
            /\ calls' = Append(calls, [res |-> r, recv |-> recv, args |-> args,
                                       spans |-> spans, fn |-> endFn[r],
                                       code |-> statusCode[recv],
                                       wraps |-> wrapCount[r],
                                       queued |-> QueuedCallbacks])
            /\ curCalls' = curCalls \cup {inv}
    /\ ops' = ops + 1
    /\ UNCHANGED <<endFn, statusCode, throwsIn, wrapCount, firstWrap, lastWrap, phase,
                   cur, immRun, timerQ, fq, callbacks, script>>

\* User code calls flushQueue().
CallFlushQueue(max) ==
    /\ cur = "user" /\ ops < max
    /\ \E mode \in FlushModes :
        LET m == flushQueue(mode, Machine)
        IN  /\ log' = m.log
            /\ fq' = m.fq
    /\ ops' = ops + 1
    /\ UNCHANGED <<endFn, statusCode, throwsIn, wrapCount, firstWrap, lastWrap, phase,
                   cur, curCalls, microQ, immQ, immRun, timerQ, calls, ft, callbacks,
                   script>>

\* ------------------------------------------------------------ event loop
\* The promise flush(2000) returned settles: its reaction is queued.
FlushSettles ==
    /\ cur = "idle"
    /\ \E k \in Indices(fq), outcome \in {"fulfilled", "rejected"} :
        /\ fq[k].outcome = "pending"
        /\ fq' = [fq EXCEPT ![k].outcome = outcome]
        /\ microQ' = Append(microQ, Task("flushResume", k))
    /\ UNCHANGED <<endFn, statusCode, throwsIn, wrapCount, firstWrap, lastWrap, phase,
                   cur, curCalls, immQ, immRun, timerQ, log, calls, ft, callbacks, ops,
                   script>>

\* The timeout handed to flush elapses before the promise it returned has
\* settled. No code of flushQueue runs: it only awaits that promise.
FlushTimeoutElapses ==
    /\ cur = "idle"
    /\ \E k \in Indices(fq) :
        /\ fq[k].outcome = "pending"
        /\ ~fq[k].late
        /\ fq' = [fq EXCEPT ![k].late = TRUE]
    /\ UNCHANGED <<endFn, statusCode, throwsIn, wrapCount, firstWrap, lastWrap, phase,
                   cur, curCalls, microQ, immQ, immRun, timerQ, log, calls, ft,
                   callbacks, ops, script>>

\* One microtask runs; the queue drains before the loop goes on.
RunMicrotask ==
    /\ cur = "idle" /\ microQ # <<>>
    /\ LET m == Execute(Head(microQ), [Machine EXCEPT !.microQ = Tail(microQ)])
       IN  /\ microQ' = m.microQ
           /\ log' = m.log
           /\ ft' = m.ft
           /\ fq' = m.fq
           /\ cur' = m.cur
    /\ UNCHANGED <<endFn, statusCode, throwsIn, wrapCount, firstWrap, lastWrap, phase,
                   curCalls, immQ, immRun, timerQ, calls, callbacks, ops, script>>

MacroReady == cur = "idle" /\ microQ = <<>>

\* The check phase runs the setImmediate callbacks queued before it began.
RunImmediate ==
    /\ MacroReady /\ phase = "check" /\ immRun # <<>>
    /\ immRun' = Tail(immRun)
    /\ LET m == Execute(Head(immRun), Machine)
       IN  /\ microQ' = m.microQ
           /\ log' = m.log
           /\ ft' = m.ft
           /\ fq' = m.fq
           /\ cur' = m.cur
    /\ UNCHANGED <<endFn, statusCode, throwsIn, wrapCount, firstWrap, lastWrap, phase,
                   curCalls, immQ, timerQ, calls, callbacks, ops, script>>

\* A timer callback runs if it has expired by the time the timers phase starts.
RunTimer ==
    /\ MacroReady /\ phase = "timers" /\ timerQ # <<>>
    /\ timerQ' = Tail(timerQ)
    /\ LET m == Execute(Head(timerQ), Machine)
       IN  /\ microQ' = m.microQ
           /\ log' = m.log
           /\ ft' = m.ft
           /\ fq' = m.fq
           /\ cur' = m.cur
    /\ UNCHANGED <<endFn, statusCode, throwsIn, wrapCount, firstWrap, lastWrap, phase,
                   curCalls, immQ, immRun, calls, callbacks, ops, script>>

NextPhase ==
    /\ MacroReady
    /\ CASE phase = "timers" ->
              /\ phase' = "poll"
              /\ UNCHANGED <<immQ, immRun>>
         [] phase = "poll" ->
              /\ phase' = "check"
              /\ immRun' = immQ
              /\ immQ' = <<>>
         [] phase = "check" ->
              /\ immRun = <<>>
              /\ phase' = "timers"
              /\ UNCHANGED <<immQ, immRun>>
    /\ UNCHANGED <<endFn, statusCode, throwsIn, wrapCount, firstWrap, lastWrap, cur,
                   curCalls, microQ, timerQ, log, calls, ft, fq, callbacks, ops,
                   script>>

\* ------------------------------------------------------------ the script
responseEndVars ==
    <<endFn, statusCode, throwsIn, wrapCount, firstWrap, lastWrap, phase, cur,
      curCalls, microQ, immQ, immRun, timerQ, log, calls, ft, fq, callbacks, ops>>

\* execSync('yarn add ...'): returns when yarn exits with status 0 and throws
\* otherwise, which ends the script.
RunInstall ==
    /\ script.pc = "start"
    /\ \E ok \in BOOLEAN :
        script' = [script EXCEPT !.pc = IF ok THEN "installed" ELSE "aborted"]
    /\ UNCHANGED responseEndVars

\* require, delete, writeFileSync. Deleting a property of an undefined
\* compilerOptions throws a TypeError, which ends the script before the write.
EditConfig ==
    /\ script.pc = "installed"
    /\ LET tsConfig == require(script.file)
       IN  IF tsConfig.hasOptions
           THEN script' = [script EXCEPT
                    !.pc = "done",
                    !.file = JSONstringify(deleteOption(tsConfig,
                                                        "noUncheckedIndexedAccess")),
                    !.edits = @ + 1]
           ELSE script' = [script EXCEPT !.pc = "aborted"]
    /\ UNCHANGED responseEndVars

\* The script is started again on the file as it is now.
RunAgain ==
    /\ script.pc \in {"done", "aborted"}
    /\ script.runs < MaxRuns
    /\ script' = [script EXCEPT !.pc = "start", !.before = script.file,
                                !.runs = @ + 1]
    /\ UNCHANGED responseEndVars

\* -------------------------------------------------------- specifications
\* Spec: one request; user code wraps its response, queues callbacks of its
\* own and ends the response, in any callback of the event loop.
Next ==
    \/ BeginHandler
    \/ EndTurn
    \/ Wrap(MaxOps, {"t1", NoTxn}, {"r1"})
    \/ SetStatusCode({"r1"})
    \/ QueueCallback(MaxOps)
    \/ InvokeEnd(MaxOps, {"r1"}, {"r1"}, {<<>>}, SpanModes)
    \/ RunMicrotask
    \/ RunImmediate
    \/ RunTimer
    \/ NextPhase

Spec == Init /\ [][Next]_vars

\* SpecLive: the same request on an event loop that makes progress: a running
\* callback returns, queued microtasks and setImmediate callbacks run, and
\* the poll phase hands over to the check phase.
NextLive ==
    \/ BeginHandler
    \/ EndTurn
    \/ Wrap(MaxLiveOps, {"t1", NoTxn}, {"r1"})
    \/ QueueCallback(MaxLiveOps)
    \/ InvokeEnd(MaxLiveOps, {"r1"}, {"r1"}, {<<>>}, {"none"})
    \/ RunMicrotask
    \/ RunImmediate
    \/ RunTimer
    \/ NextPhase

Fairness ==
    /\ WF_vars(EndTurn)
    /\ WF_vars(RunMicrotask)
    /\ WF_vars(RunImmediate)
    /\ SF_vars(NextPhase)

SpecLive == Init /\ [][NextLive]_vars /\ Fairness

\* SpecThrows: one request whose transaction may throw from setHttpStatus
\* or from finish.
NextThrows ==
    \/ BeginHandler
    \/ EndTurn
    \/ Wrap(MaxThrowOps, {"t1"}, {"r1"})
    \/ InvokeEnd(MaxThrowOps, {"r1"}, {"r1"}, ArgLists, {"none"})
    \/ RunMicrotask
    \/ RunImmediate
    \/ NextPhase

SpecThrows == InitThrows /\ [][NextThrows]_vars

\* SpecTwo: two requests in flight, each response wrapped with its own
\* transaction and ended on itself, the status codes set independently.
NextTwo ==
    \/ BeginHandler
    \/ EndTurn
    \/ Wrap(MaxTwoOps, {"t1"}, {"r1"})
    \/ Wrap(MaxTwoOps, {"t2"}, {"r2"})
    \/ SetStatusCode(Res)
    \/ InvokeEnd(MaxTwoOps, {"r1"}, {"r1"}, {<<>>}, {"none"})
    \/ InvokeEnd(MaxTwoOps, {"r2"}, {"r2"}, {<<>>}, {"none"})
    \/ RunMicrotask
    \/ RunImmediate
    \/ NextPhase

SpecTwo == Init /\ [][NextTwo]_vars

\* SpecTimeout: user code calls flushQueue; the promise flush returned
\* settles before or after the timeout it was given, or never.
NextTimeout ==
    \/ BeginHandler
    \/ EndTurn
    \/ CallFlushQueue(MaxTimeoutOps)
    \/ FlushSettles
    \/ FlushTimeoutElapses
    \/ RunMicrotask
    \/ NextPhase

SpecTimeout == Init /\ [][NextTimeout]_vars

\* SpecScript: runs of use-ts-3_8.js.
NextScript ==
    \/ RunInstall
    \/ EditConfig
    \/ RunAgain

SpecScript == InitScript /\ [][NextScript]_vars

\* SpecWrap: two requests, each response wrapped any number of times with any
\* transaction and ended with any receiver and arguments.
NextWrap ==
    \/ BeginHandler
    \/ EndTurn
    \/ Wrap(MaxWrapOps, Txns \cup {NoTxn}, Res)
    \/ InvokeEnd(MaxWrapOps, Res, Res, ArgLists, {"none", "sync"})
    \/ RunMicrotask
    \/ RunImmediate
    \/ NextPhase

SpecWrap == Init /\ [][NextWrap]_vars

\* SpecFlush: one request whose handler also calls flushQueue.
NextFlush ==
    \/ BeginHandler
    \/ EndTurn
    \/ Wrap(MaxFlushOps, {"t1"}, {"r1"})
    \/ InvokeEnd(MaxFlushOps, {"r1"}, {"r1"}, {<<>>}, {"none"})
    \/ CallFlushQueue(MaxFlushOps)
    \/ FlushSettles
    \/ RunMicrotask
    \/ RunImmediate
    \/ NextPhase

SpecFlush == Init /\ [][NextFlush]_vars

\* ------------------------------------------------------------ properties
Events(op, i) == {n \in Indices(log) : log[n].op = op /\ log[n].inv = i}

\* The transaction the wrapper called by invocation i closes over.
Wrapped(i) == calls[i].fn # <<>>
HandleOf(i) == IF Wrapped(i) THEN Head(calls[i].fn).txn ELSE NoTxn
WithHandle(i) == Wrapped(i) /\ HandleOf(i) # NoTxn

InQueue(q, task) == \E n \in Indices(q) : q[n] = task

Quiescent ==
    /\ cur = "idle"
    /\ PendingTasks = <<>>
    /\ \A k \in Indices(fq) : fq[k].outcome # "pending"

\* finish() of invocation i has run after every callback of the given kinds
\* that was queued when res.end was invoked.
FinishAfterQueued(vias) ==
    \A i \in Indices(calls) : \A n \in Events("finish", i) :
        \A id \in calls[i].queued :
            callbacks[id] \in vias => \E c \in Events("cb", id) : c < n

\* C1 (as stated): transaction.finish() is not called in the synchronous
\* phase that invoked the wrapped res.end, and it runs after every callback
\* that was already queued when res.end was invoked, however it was queued.
C1_TickDeferralAnyCallback ==
    /\ \A i \in curCalls : Events("finish", i) = {}
    /\ FinishAfterQueued(Vias)

\* C1 (amended): transaction.finish() is not called in the synchronous phase
\* that invoked the wrapped res.end, and it runs after every microtask
\* (promise, nextTick) and every setImmediate callback that was already queued
\* when res.end was invoked. A setTimeout callback queued earlier may run later.
C1_TickDeferral ==
    /\ \A i \in curCalls : Events("finish", i) = {}
    /\ FinishAfterQueued({"tick", "immediate"})

C1_Witness ==
    \E i \in Indices(calls) :
        /\ Events("finish", i) # {}
        /\ \E id \in calls[i].queued : callbacks[id] = "immediate"

\* C2: every completion of a child span that the end of the response
\* triggers, synchronously in the original end or in a callback of the same
\* tick, has happened before transaction.finish() is called; none is pending.
C2_LosesTheRace ==
    \A i \in Indices(calls) : \A n \in Events("finish", i) :
        /\ calls[i].spans # "none" => \E sp \in Events("spanFinish", i) : sp < n
        /\ ~InQueue(microQ, Task("span", i))

C2_Witness ==
    \E i \in Indices(calls) :
        /\ calls[i].spans = "tick"
        /\ Events("finish", i) # {}

\* C3: an invocation of the wrapped res.end with a transaction calls
\* setHttpStatus on it exactly once, with the status code the response has at
\* that moment, and before the transaction.finish() of that invocation.
C3_StatusBeforeFinish ==
    \A i \in Indices(calls) : WithHandle(i) =>
        /\ Cardinality(Events("setHttpStatus", i)) = 1
        /\ \A n \in Events("setHttpStatus", i) :
              /\ log[n].who = HandleOf(i)
              /\ log[n].arg = calls[i].code
              /\ \A f \in Events("finish", i) : n < f

C3_Witness ==
    \E i \in Indices(calls) :
        /\ WithHandle(i)
        /\ calls[i].code = 404
        /\ Events("finish", i) # {}

\* C4: after one or more calls of autoEndTransactionOnResponseEnd on a
\* response, res.end carries exactly one wrapper, the one the first call
\* installed, with the marker set; an invocation of res.end starts at most
\* one finishTransaction and calls the original end exactly once.
C4_WrapIdempotent ==
    /\ \A r \in Res : wrapCount[r] >= 1 =>
          /\ Len(endFn[r]) = 1
          /\ endFn[r][1].sentry_original
          /\ endFn[r][1].txn = firstWrap[r]
    /\ \A r \in Res : wrapCount[r] = 0 => endFn[r] = <<>>
    /\ \A i \in Indices(calls) :
          /\ Cardinality(Events("origEnd", i)) = 1
          /\ Cardinality({k \in Indices(ft) : ft[k].inv = i}) = Len(calls[i].fn)
          /\ Len(calls[i].fn) <= 1

C4_Witness ==
    \E i \in Indices(calls) :
        /\ wrapCount[calls[i].res] >= 2
        /\ Wrapped(i)

\* What invocation i did that the original end does: its calls and the
\* completions of spans, in order.
NativeEffects(events, i) ==
    SelectSeq(events, LAMBDA e : /\ e.inv = i
                                 /\ e.op \in {"origEnd", "spanFinish", "return"}
                                 /\ e.who # "tick")

DirectCall(i) ==
    LET c == calls[i]
        m == origEnd(c.recv, c.args, i, c.spans,
                     [Machine EXCEPT !.log = <<>>, !.microQ = <<>>])
    IN  Append(m.log, Ev("return", i, c.recv, m.ret))

\* C5: invoking the wrapped res.end calls the original end with the same
\* receiver and arguments, and has the synchronous effects and the return
\* value of calling the original end directly.
C5_WrapperTransparent ==
    \A i \in Indices(calls) : NativeEffects(log, i) = DirectCall(i)

C5_Witness ==
    \E i \in Indices(calls) :
        /\ WithHandle(i)
        /\ calls[i].args # <<>>
        /\ calls[i].recv # calls[i].res
        /\ calls[i].spans = "sync"

\* C6: with a transaction, transaction.finish() has been called and flush
\* has been called before the original end runs.
C6_FinishedAndFlushedBeforeEnd ==
    \A i \in Indices(calls) : WithHandle(i) =>
        \A n \in Events("origEnd", i) :
            /\ \E f \in Events("finish", i) : f < n
            /\ \E g \in Indices(log) : log[g].op = "flush" /\ g < n

C8_EndTriggersFlush ==
    \A k \in Indices(ft) :
        (ft[k].state = "resolved" /\ Quiescent) =>
            \E g \in Indices(log), r \in Events("return", ft[k].inv) :
                log[g].op = "flush" /\ r < g

\* C9: without a transaction, invoking the wrapped res.end calls neither
\* setHttpStatus nor finish, its finishTransaction is resolved at once with no
\* callback scheduled, and the original end is called and its result returned.
C9_NoHandleNoTracing ==
    \A i \in Indices(calls) : (Wrapped(i) /\ HandleOf(i) = NoTxn) =>
        /\ Events("setHttpStatus", i) = {}
        /\ Events("finish", i) = {}
        /\ \E k \in Indices(ft) : ft[k].inv = i
        /\ \A k \in Indices(ft) : ft[k].inv = i =>
              /\ ft[k].state = "resolved"
              /\ ~InQueue(PendingTasks, Task("finish", k))
        /\ Cardinality(Events("origEnd", i)) = 1
        /\ Cardinality(Events("return", i)) = 1

C9_Witness ==
    \E i \in Indices(calls) :
        /\ Wrapped(i)
        /\ HandleOf(i) = NoTxn
        /\ Quiescent

\* C10: flushQueue calls flush exactly once, with timeout 2000; its promise is
\* never rejected, and it is resolved when flush threw, and when the promise
\* flush returned was rejected and flushQueue has run on.
C10_FlushQueueBestEffort ==
    \A k \in Indices(fq) :
        /\ Cardinality(Events("flush", k)) = 1
        /\ \A n \in Events("flush", k) : log[n].arg = 2000
        /\ fq[k].state # "rejected"
        /\ fq[k].outcome = "threw" => fq[k].state = "resolved"
        /\ (fq[k].outcome = "rejected" /\ ~InQueue(microQ, Task("flushResume", k)))
              => fq[k].state = "resolved"

C10_Witness ==
    \E k \in Indices(fq) :
        /\ fq[k].outcome = "rejected"
        /\ fq[k].state = "resolved"

\* C11 (as stated): when flush has not settled its promise within the
\* timeout, flushQueue takes that as a failure and resolves: once the timeout
\* has elapsed and no microtask is left to run, its promise is resolved.
C11_TimeoutResolves ==
    \A k \in Indices(fq) :
        (fq[k].late /\ cur = "idle" /\ microQ = <<>>) => fq[k].state = "resolved"

\* C11 (amended): flushQueue sets no timer of its own. It hands the timeout
\* 2000 to flush and stays pending as long as the promise flush returned is
\* unsettled, also after the timeout has elapsed; once that promise settles,
\* fulfilled or rejected, and flushQueue has run on, its promise is resolved.
C11_FlushQueueAwaitsFlush ==
    \A k \in Indices(fq) :
        /\ \A n \in Events("flush", k) : log[n].arg = 2000
        /\ fq[k].outcome = "pending" => fq[k].state = "pending"
        /\ (fq[k].outcome # "pending" /\ ~InQueue(microQ, Task("flushResume", k)))
              => fq[k].state = "resolved"

C11_Witness ==
    \E k \in Indices(fq) :
        /\ fq[k].late
        /\ fq[k].state = "pending"
        /\ cur = "idle"
        /\ PendingTasks = <<>>

\* C12: with a tracing handle, the promise of finishTransaction is not
\* resolved (nor is its continuation queued) before the setImmediate callback
\* has run transaction.finish(); and on an event loop that makes progress a
\* pending finishTransaction is eventually resolved.
C12_ResolvesAfterFinish ==
    /\ [](\A k \in Indices(ft) :
            ft[k].txn # NoTxn =>
                (ft[k].state \in {"resuming", "resolved"}
                    <=> \E n \in Indices(log) :
                            log[n] = Ev("finish", ft[k].inv, ft[k].txn, 0)))
    /\ \A k \in 1..MaxLiveOps :
           (k \in Indices(ft) /\ ft[k].txn # NoTxn /\ ft[k].state = "pending")
               ~> (k \in Indices(ft) /\ ft[k].state = "resolved")

C12_Witness ==
    \E k \in Indices(ft) :
        /\ ft[k].txn # NoTxn
        /\ ft[k].state = "resolved"
        /\ \E n \in Indices(log) : log[n] = Ev("finish", ft[k].inv, ft[k].txn, 0)

\* C13: when setHttpStatus or finish throws, the call of the wrapped res.end
\* throws nothing at its caller, the original end is called exactly once with
\* the original receiver and arguments, and its result is returned.
C13_TracingFailureIsolated ==
    \A i \in Indices(calls) :
        Wrapped(i) =>
            /\ Events("throw", i) = {}
            /\ Cardinality(Events("origEnd", i)) = 1
            /\ \A n \in Events("origEnd", i) :
                   log[n].who = calls[i].recv /\ log[n].arg = calls[i].args
            /\ Cardinality(Events("return", i)) = 1
            /\ \A n \in Events("return", i) :
                   log[n].arg = OrigEndResult(calls[i].recv, calls[i].args)

C13_Witness ==
    /\ throwsIn["t1"] # "ok"
    /\ Quiescent
    /\ \E i \in Indices(calls) :
        /\ WithHandle(i)
        /\ calls[i].args # <<>>
        /\ Events("setHttpStatus", i) # {}
        /\ Events("return", i) # {}

\* res.end carries the marker __sentry_original__.
Marked(r) == endFn[r] # <<>> /\ Head(endFn[r]).sentry_original

\* C14: once autoEndTransactionOnResponseEnd has set the marker on a
\* response's end method, no later step clears it; the marker is set exactly
\* on the responses the function has been called on.
C14_MarkerMonotonic ==
    /\ [][\A r \in Res : Marked(r) => Marked(r)']_vars
    /\ [](\A r \in Res : Marked(r) <=> wrapCount[r] >= 1)

C14_Witness ==
    \E i \in Indices(calls) :
        /\ Marked(calls[i].res)
        /\ Wrapped(i)
        /\ wrapCount[calls[i].res] > calls[i].wraps
        /\ calls[i].wraps >= 1

\* C15: the transaction of the first autoEndTransactionOnResponseEnd call on
\* a response stays the one its end method closes: a later call with another
\* transaction changes nothing, and every later res.end calls setHttpStatus
\* and finish on the first transaction only.
C15_FirstWrapWins ==
    /\ \A r \in Res : wrapCount[r] >= 1 => Head(endFn[r]).txn = firstWrap[r]
    /\ \A i \in Indices(calls) :
          \A n \in Events("setHttpStatus", i) \cup Events("finish", i) :
              log[n].who = firstWrap[calls[i].res]

C15_Witness ==
    \E i \in Indices(calls) :
        LET r == calls[i].res
        IN  /\ calls[i].wraps >= 2
            /\ firstWrap[r] \in Txns
            /\ lastWrap[r] \in Txns \ {firstWrap[r]}
            /\ Events("setHttpStatus", i) # {}
            /\ Events("finish", i) # {}

\* C16: every invocation of a wrapped res.end with a transaction calls
\* setHttpStatus once at once and, by the time its setImmediate callback has
\* run, finish once, however often res.end was invoked before; the finish
\* calls come in the order of the invocations.
C16_NoDeduplication ==
    /\ \A i \in Indices(calls) :
          WithHandle(i) =>
              /\ Cardinality(Events("setHttpStatus", i)) = 1
              /\ Cardinality(Events("finish", i)) <= 1
              /\ Quiescent => Cardinality(Events("finish", i)) = 1
              /\ \A n \in Events("setHttpStatus", i) \cup Events("finish", i) :
                     log[n].who = HandleOf(i)
    /\ \A i, j \in Indices(calls) :
          (i < j /\ Events("finish", j) # {}) =>
              \/ ~WithHandle(i)
              \/ \E a \in Events("finish", i) : \A b \in Events("finish", j) : a < b

C16_Witness ==
    /\ Quiescent
    /\ \E i, j \in Indices(calls) :
        /\ i < j
        /\ calls[i].res = calls[j].res
        /\ WithHandle(i) /\ WithHandle(j)
        /\ Events("finish", i) # {} /\ Events("finish", j) # {}

\* C18: with a transaction, the promise finishTransaction awaits is resolved
\* only by the setImmediate callback after transaction.finish() returned; if
\* finish() throws there, the exception leaves the callback, resolve is never
\* called and finishTransaction stays pending: neither resolved nor rejected.
\* Its promise is rejected only when setHttpStatus threw before the callback
\* was queued.
C18_PendingWhenFinishThrows ==
    \A k \in Indices(ft) :
        ft[k].txn # NoTxn =>
            /\ ft[k].state \in {"resuming", "resolved"} =>
                  /\ Events("finish", ft[k].inv) # {}
                  /\ Events("uncaught", ft[k].inv) = {}
            /\ Throws(ft[k].txn, "finish") => ft[k].state = "pending"
            /\ ft[k].state = "rejected" <=> Throws(ft[k].txn, "setHttpStatus")

C18_Witness ==
    /\ Quiescent
    /\ \E k \in Indices(ft) :
        /\ ft[k].txn # NoTxn
        /\ Throws(ft[k].txn, "finish")
        /\ Events("uncaught", ft[k].inv) # {}
        /\ ft[k].state = "pending"

\* C17: with two responses, each wrapped with its own transaction, an
\* invocation of one response's end calls setHttpStatus and finish only on
\* that response's transaction, with that response's status code; a step
\* that is not a wrap call on a response leaves its end method, marker and
\* transaction as they were, and no step but user code changes a status code.
C17_RequestsIsolated ==
    /\ [](\A i \in Indices(calls) :
            /\ \A n \in Events("setHttpStatus", i) :
                   /\ log[n].who = firstWrap[calls[i].res]
                   /\ log[n].arg = calls[i].code
            /\ \A n \in Events("finish", i) : log[n].who = firstWrap[calls[i].res])
    /\ [][\A r \in Res :
            /\ wrapCount'[r] = wrapCount[r] => endFn'[r] = endFn[r]
            /\ cur = "idle" => statusCode'[r] = statusCode[r]]_vars

C17_Witness ==
    \E i, j \in Indices(calls) :
        /\ calls[i].res = "r1" /\ calls[j].res = "r2"
        /\ WithHandle(i) /\ WithHandle(j)
        /\ HandleOf(i) # HandleOf(j)
        /\ calls[i].code # calls[j].code
        /\ \E a \in Events("setHttpStatus", i), b \in Events("setHttpStatus", j),
              c \in Events("finish", i), d \in Events("finish", j) :
                a < b /\ b < c /\ c < d

\* C19: the script writes the tsconfig only after yarn has exited with
\* success, and an aborted run leaves the file as it was; the config written
\* is the config read without the key noUncheckedIndexedAccess of
\* compilerOptions and otherwise the same; a further edit writes the same
\* file again.
C19_ConfigEditedAfterInstall ==
    /\ [][script'.file # script.file => script.pc = "installed"]_vars
    /\ [](script.pc = "aborted" => script.file = script.before)
    /\ [](\A old \in {script.before, script.orig} :
            (script.pc = "done" \/ (old = script.orig /\ script.edits >= 1)) =>
                /\ require(script.file).hasOptions /\ require(old).hasOptions
                /\ require(script.file).options =
                       SelectSeq(require(old).options,
                                 LAMBDA e : e[1] # "noUncheckedIndexedAccess"))
    /\ []((script.pc = "done" /\ script.edits >= 2) => script.file = script.before)

C19_Witness ==
    /\ script.pc = "done"
    /\ script.edits >= 2
    /\ \E n \in Indices(script.orig.options) :
          script.orig.options[n][1] = "noUncheckedIndexedAccess"
    /\ \E n \in Indices(script.file.options) : script.file.options[n][1] = "strict"
    /\ script.orig.indent # script.file.indent

====
